---- MODULE Spec2Model ----
(***************************************************************************)
(* Model of mpl2latex.py: class Matplotlib2LaTeX, which overrides          *)
(* matplotlib's global rcParams for LaTeX/pgf output when constructed and  *)
(* resets rcParams and the backend in reset() / save_fig().                *)
(*                                                                         *)
(* matplotlib itself is an external collaborator.  What the model takes    *)
(* from it:                                                                *)
(*   - matplotlib.rcParams is one process-wide mutable mapping;            *)
(*     rcParams.update(d) overwrites the keys of d and leaves the others;  *)
(*   - pyplot.rc(group, name = v) sets rcParams[group.name] = v;           *)
(*   - matplotlib.use(b) makes b the active backend, or raises when b is   *)
(*     not one of rcsetup.all_backends; pyplot.get_backend() reads it;     *)
(*   - fig.tight_layout() and fig.savefig(PATH) either succeed or raise    *)
(*     (e.g. the LaTeX toolchain is missing): a nondeterministic outcome.  *)
(* The active backend is kept apart from the other configuration keys.     *)
(* The figure and the file that fig.savefig writes are outside the model:  *)
(* the history keeps the backend that was active when savefig was called.  *)
(***************************************************************************)
EXTENDS Integers, Sequences, FiniteSets, TLC

\* ------------------------------------------------------------------ bounds
NumObjects == 2     \* Matplotlib2LaTeX instances alive in the process
MaxPackages == 2    \* longest package list passed to the constructor

\* ------------------------------------------------------- values and keys
\* A configuration value is tagged with its Python type, so that values of
\* different types are different and comparable.  A string is the sequence of
\* its pieces (so that "\n".join can be computed, and "" is <<>>).
Num(n) == <<"num", n>>
Str(s) == <<"str", <<s>>>>
Text(pieces) == <<"str", pieces>>
Bool(b) == <<"bool", b>>

None == "None"
\* An optional non-string argument: <<>> is None, <<v>> is the value v.
NoArg == <<>>
Some(v) == <<v>>

LaTeXKeys ==
    {"pgf.texsystem", "font.family", "text.usetex", "pgf.rcfonts", "pgf.preamble"}

SizeKeys ==
    {"font.size", "axes.titlesize", "axes.labelsize", "xtick.labelsize",
     "ytick.labelsize", "legend.fontsize", "figure.titlesize"}

OverrideKeys == LaTeXKeys \cup SizeKeys

\* A key of rcParams that the class never names.
OtherKeys == {"figure.dpi"}

Keys == OverrideKeys \cup OtherKeys

\* matplotlib.rcParamsDefault: the library's built-in configuration.
rcParamsDefault ==
    [k \in Keys |->
        CASE k = "pgf.texsystem"    -> Str("xelatex")
          [] k = "font.family"      -> Str("sans-serif")
          [] k = "text.usetex"      -> Bool(FALSE)
          [] k = "pgf.rcfonts"      -> Bool(TRUE)
          [] k = "pgf.preamble"     -> Text(<<>>)
          [] k = "font.size"        -> Num(10)
          [] k = "axes.titlesize"   -> Str("large")
          [] k = "axes.labelsize"   -> Str("medium")
          [] k = "xtick.labelsize"  -> Str("medium")
          [] k = "ytick.labelsize"  -> Str("medium")
          [] k = "legend.fontsize"  -> Str("medium")
          [] k = "figure.titlesize" -> Str("large")
          [] k = "figure.dpi"       -> Num(100)]

\* matplotlib.rcsetup.all_backends, and backend arguments a caller may pass.
all_backends == {"agg", "pgf"}
BackendArgs == all_backends \cup {"bogus"}

\* ------------------------------------------------------------ inputs
Objs == 1..NumObjects

DefaultSizes == <<8, 10, 11, 12>>
OtherSizes == <<20, 6, 5, 7>>

Utf8Inputenc == "\\usepackage[utf8]{inputenc}"
PackageLines == <<"\\usepackage{amsmath}", Utf8Inputenc, "\\usepackage{siunitx}",
                  "\\usepackage{physics}">>
\* Constructor arguments <<sizes, packages>>: packages = None with the default
\* sizes, or a list of at most MaxPackages lines with the default sizes (even
\* length) or other sizes (odd length).
InitArgs ==
    {<<DefaultSizes, NoArg>>} \cup
    {<<IF n % 2 = 0 THEN DefaultSizes ELSE OtherSizes,
       Some(SubSeq(PackageLines, 1, n))>> : n \in 0..MaxPackages}

\* Configurations the process may hold before any object exists: the
\* library defaults, possibly customised by the user.
InitialConfigs ==
    {[rcParamsDefault EXCEPT !["text.usetex"] = Bool(u),
                             !["font.size"] = Num(c[1]),
                             !["figure.dpi"] = Num(c[2])] :
        u \in BOOLEAN, c \in {<<10, 100>>, <<14, 300>>}}

\* rcparams arguments of reset: None, a full configuration, a partial one.
RcArgs ==
    {NoArg,
     Some([rcParamsDefault EXCEPT !["font.size"] = Num(14),
                                  !["text.usetex"] = Bool(TRUE),
                                  !["figure.dpi"] = Num(300)]),
     Some([k \in {"font.size"} |-> Num(14)])}

Paths == {"fig.pgf"}

\* ------------------------------------------------------------- state
VARIABLES
    rcParams,   \* matplotlib.rcParams, the live global configuration
    backend,    \* the active backend (matplotlib.use / pyplot.get_backend)
    objects,    \* the constructed Matplotlib2LaTeX instances, by identity
    lastInit,   \* history: the object constructed last, and rcParams as it was
                \* when its __init__ began
    lastCall    \* history: the last call, its arguments and what it did

vars == <<rcParams, backend, objects, lastInit, lastCall>>

\* ------------------------------------------------- library operations
\* dict.update: overwrite the keys of e, keep the others.
Update(d, e) ==
    [k \in DOMAIN d \cup DOMAIN e |-> IF k \in DOMAIN e THEN e[k] ELSE d[k]]

\* pyplot.rc(group, name = value): rcParams[group.name] = value, as an update.
PyplotRc(group, name, value) ==
    [k \in {group \o "." \o name} |-> value]

\* sep.join(lines)
RECURSIVE Join(_, _)
Join(sep, lines) ==
    IF lines = <<>> THEN <<>>
    ELSE IF Len(lines) = 1 THEN <<lines[1]>>
    ELSE <<lines[1], sep>> \o Join(sep, Tail(lines))

\* matplotlib.use(b) succeeds exactly for the known backends; Use is the
\* active backend after the call, given the one before it.
UseRaises(b) == b \notin all_backends
Use(current, b) == IF UseRaises(b) THEN current ELSE b

\* self.original_rcParams = matplotlib.rcParams binds the attribute to the
\* global object itself: the attribute holds a reference, and reading through
\* it reads the live configuration.
RcParamsRef == "matplotlib.rcParams"
Deref(ref, live) == IF ref = RcParamsRef THEN live ELSE ref

\* ------------------------------------------------------ __init__
\* packages == None -> the single utf8 inputenc line
DefaultPackages(packages) ==
    IF packages = NoArg THEN <<Utf8Inputenc>> ELSE packages[1]

\* the object after lines 73-86 (fig and ax are opaque and left out)
NewObject(sizes, packages) ==
    [SMALL_SIZE |-> sizes[1], MEDIUM_SIZE |-> sizes[2],
     BIGGER_SIZE |-> sizes[3], BIGGEST_SIZE |-> sizes[4],
     original_backend |-> backend,
     original_rcParams |-> RcParamsRef,
     packages |-> DefaultPackages(packages)]

\* the dictionary of lines 88-94
LaTeXParams(self) ==
    [k \in LaTeXKeys |->
        CASE k = "pgf.texsystem" -> Str("pdflatex")
          [] k = "font.family"   -> Str("serif")
          [] k = "text.usetex"   -> Bool(TRUE)
          [] k = "pgf.rcfonts"   -> Bool(FALSE)
          [] k = "pgf.preamble"  -> Text(Join("\n", self.packages))]

\* (variant with the axes title and axes label tiers exchanged)
SizeParamsSwapped(self) ==
    <<PyplotRc("font", "size", Num(self.SMALL_SIZE)),
      PyplotRc("axes", "titlesize", Num(self.MEDIUM_SIZE)),
      PyplotRc("axes", "labelsize", Num(self.BIGGER_SIZE)),
      PyplotRc("xtick", "labelsize", Num(self.SMALL_SIZE)),
      PyplotRc("ytick", "labelsize", Num(self.SMALL_SIZE)),
      PyplotRc("legend", "fontsize", Num(self.MEDIUM_SIZE)),
      PyplotRc("figure", "titlesize", Num(self.BIGGEST_SIZE))>>

\* the seven pyplot.rc calls of lines 97-103, in order
SizeParams(self) ==
    <<PyplotRc("font", "size", Num(self.SMALL_SIZE)),
      PyplotRc("axes", "titlesize", Num(self.BIGGER_SIZE)),
      PyplotRc("axes", "labelsize", Num(self.MEDIUM_SIZE)),
      PyplotRc("xtick", "labelsize", Num(self.SMALL_SIZE)),
      PyplotRc("ytick", "labelsize", Num(self.SMALL_SIZE)),
      PyplotRc("legend", "fontsize", Num(self.MEDIUM_SIZE)),
      PyplotRc("figure", "titlesize", Num(self.BIGGEST_SIZE))>>

\* apply a sequence of updates, first to last
RECURSIVE UpdateAll(_, _)
UpdateAll(d, updates) ==
    IF updates = <<>> THEN d
    ELSE UpdateAll(Update(d, Head(updates)), Tail(updates))

\* (variant that starts from the library defaults instead of the live values)
ConstructedRcFromDefaults(self) ==
    UpdateAll(Update(rcParamsDefault, LaTeXParams(self)), SizeParams(self))

\* lines 88-103: rcParams after the update and the seven pyplot.rc calls
ConstructedRc(self) ==
    UpdateAll(Update(rcParams, LaTeXParams(self)), SizeParams(self))

\* The attributes of an object that a later method reads: the sizes and the
\* packages are read by __init__ alone, so the state keeps the two originals.
Kept(self) ==
    [original_backend |-> self.original_backend,
     original_rcParams |-> self.original_rcParams]

\* the configuration restricted to a set of keys
Restrict(d, keys) == [k \in keys \cap DOMAIN d |-> d[k]]

\* The history records.  Each keeps what the properties of that call read:
\* the object, the arguments, whether the call raised, and
\*   __init__ : the keys outside the override set and the backend as they
\*              were before the call;
\*   reset    : (line 121 always runs);
\*   save_fig : whether line 157 ran reset(), the backend active when line 156
\*              called fig.savefig (None when line 156 was not reached), and whether the call came
\*              directly after the __init__ of the same object.
InitCall(o, sizes, packages) ==
    [op |-> "__init__", self |-> o, sizes |-> sizes, packages |-> packages,
     otherBefore |-> Restrict(rcParams, OtherKeys), backendBefore |-> backend]

ResetCall(o, rcparams, raised) ==
    [op |-> "reset", self |-> o, rcparams |-> rcparams, raised |-> raised]

ResetBackendCall(o, raised) ==
    [op |-> "reset_backend", self |-> o, raised |-> raised]

SaveFigCall(o, b, raised, resetRan, savedWith) ==
    [op |-> "save_fig", self |-> o, backend |-> b, raised |-> raised,
     resetRan |-> resetRan, savedWith |-> savedWith,
     afterInit |-> (lastCall.op = "__init__" /\ lastCall.self = o)]

\* Matplotlib2LaTeX(fig, *sizes, packages = packages)
Construct(o, sizes, packages) ==
    /\ o \notin DOMAIN objects
    /\ LET self == NewObject(sizes, packages) IN
        /\ objects' = [p \in DOMAIN objects \cup {o} |->
                          IF p = o THEN Kept(self) ELSE objects[p]]
        /\ rcParams' = ConstructedRc(self)
    /\ lastInit' = [self |-> o, rcParams |-> rcParams]
    /\ lastCall' = InitCall(o, sizes, packages)
    /\ UNCHANGED backend

\* ------------------------------------------------------ reset, reset_backend
\* (variant that falls back to a fixed backend)
DefaultBackendAgg(self, b) ==
    IF b = None THEN "agg" ELSE b

\* lines 116-117 and 134-135: backend == None -> self.original_backend
DefaultBackend(self, b) ==
    IF b = None THEN self.original_backend ELSE b

\* lines 118-119: rcparams == None -> self.original_rcParams
DefaultRcparams(self, rcparams) ==
    IF rcparams = NoArg THEN Deref(self.original_rcParams, rcParams) ELSE rcparams[1]

\* (variant that installs the local rcparams)
ResetSourceRcparams(rcparams) == rcparams

\* (variant that puts back the defaults of the override keys only)
ResetSourceOverridesOnly(rcparams) == [k \in OverrideKeys |-> rcParamsDefault[k]]

\* line 121: the argument of matplotlib.rcParams.update, where the local
\* rcparams of lines 118-119 is in scope and not used
ResetSource(rcparams) == rcParamsDefault

\* self.reset_backend(backend = b)
ResetBackend(o, b) ==
    /\ o \in DOMAIN objects
    /\ LET target == DefaultBackend(objects[o], b) IN
        /\ backend' = Use(backend, target)
        /\ lastCall' = ResetBackendCall(o, UseRaises(target))
    /\ UNCHANGED <<rcParams, objects, lastInit>>

\* self.reset(rcparams = rcparams, backend = b)
Reset(o, rcparams, b) ==
    /\ o \in DOMAIN objects
    /\ LET self == objects[o]
           target == DefaultBackend(self, DefaultBackend(self, b))
           source == ResetSource(DefaultRcparams(self, rcparams))
       IN  /\ rcParams' = Update(rcParams, source)
           /\ backend' = Use(backend, target)
           /\ lastCall' = ResetCall(o, rcparams, UseRaises(target))
    /\ UNCHANGED <<objects, lastInit>>

\* ------------------------------------------------------ save_fig
\* What the external calls of save_fig do: each of tight_layout and savefig
\* either returns or raises.
Faults == {"none", "tight_layout", "savefig"}

\* self.save_fig(PATH, backend = b, tight = tight)
SaveFig(o, PATH, b, tight, fault) ==
    /\ o \in DOMAIN objects
    /\ fault = "tight_layout" => tight
    /\ LET self == objects[o]
           target == DefaultBackend(self, DefaultBackend(self, None))
           source == ResetSource(DefaultRcparams(self, NoArg))
           switched == Use(backend, b)
       IN  IF UseRaises(b)
           THEN \* line 153 raises
                /\ lastCall' = SaveFigCall(o, b, TRUE, FALSE, None)
                /\ UNCHANGED <<rcParams, backend>>
           ELSE IF fault # "none"
           THEN \* line 155 or line 156 raises, after the switch of line 153
                /\ backend' = switched
                /\ lastCall' = SaveFigCall(o, b, TRUE, FALSE,
                                           IF fault = "savefig" THEN switched ELSE None)
                /\ UNCHANGED rcParams
           ELSE \* lines 153-157 complete
                /\ rcParams' = Update(rcParams, source)
                /\ backend' = Use(switched, target)
                /\ lastCall' = SaveFigCall(o, b, UseRaises(target), TRUE, switched)
    /\ UNCHANGED <<objects, lastInit>>

Init ==
    /\ rcParams \in InitialConfigs
    /\ backend \in all_backends
    /\ objects = <<>>
    /\ lastInit = [self |-> 0, rcParams |-> rcParams]
    /\ lastCall = [op |-> "none", self |-> 0]

Next ==
    \/ \E o \in Objs, args \in InitArgs :
          Construct(o, args[1], args[2])
    \/ \E o \in Objs, rcparams \in RcArgs, b \in BackendArgs \cup {None} :
          Reset(o, rcparams, b)
    \/ \E o \in Objs, b \in BackendArgs \cup {None} :
          ResetBackend(o, b)
    \/ \E o \in Objs, PATH \in Paths, b \in BackendArgs, tight \in BOOLEAN,
          fault \in Faults :
          SaveFig(o, PATH, b, tight, fault)

Spec == Init /\ [][Next]_vars

\* ------------------------------------------------------------ properties
Completed(op) == lastCall.op = op /\ ~lastCall.raised

\* C1: after an object is constructed and its save_fig then completes, every
\* key of the override set has the value it had immediately before the
\* construction.
C1_RestoredAfterSaveFig ==
    (Completed("save_fig") /\ lastCall.afterInit)
        => \A k \in OverrideKeys : rcParams[k] = lastInit.rcParams[k]

\* C2: when a step of save_fig raises, reset() has still run by the time the
\* error reaches the caller, and the backend is the original one again.
C2_ResetRunsWhenSaveFigRaises ==
    (lastCall.op = "save_fig" /\ lastCall.raised)
        => /\ lastCall.resetRan
           /\ backend = objects[lastCall.self].original_backend

\* C3: original_rcParams of an object keeps, for every key, the value the
\* global configuration had when the object was constructed, whatever is
\* written to the live configuration afterwards.
C3_SnapshotIndependent ==
    lastInit.self \in DOMAIN objects
        => \A k \in Keys :
              Deref(objects[lastInit.self].original_rcParams, rcParams)[k]
                  = lastInit.rcParams[k]

\* C4: original_backend is the backend active at construction; save_fig calls
\* fig.savefig with its backend argument active, and after it returns
\* normally the active backend is the object's original_backend.
C4_BackendDuringAndAfterSaveFig ==
    /\ lastCall.op = "__init__"
          => objects[lastCall.self].original_backend = lastCall.backendBefore
    /\ (lastCall.op = "save_fig" /\ lastCall.savedWith # None)
          => lastCall.savedWith = lastCall.backend
    /\ Completed("save_fig")
          => /\ lastCall.savedWith = lastCall.backend
             /\ backend = objects[lastCall.self].original_backend

\* a save_fig with another backend than the original one returned normally,
\* while a second object with a different original backend exists
C4_Witness ==
    /\ Completed("save_fig")
    /\ lastCall.backend # backend
    /\ \E p \in DOMAIN objects :
          objects[p].original_backend # objects[lastCall.self].original_backend

\* C5: after reset(), called directly or at the end of save_fig, text.usetex
\* is false.
C5_UsetexFalseAfterReset ==
    (Completed("reset") \/ Completed("save_fig"))
        => rcParams["text.usetex"] = Bool(FALSE)

\* reset() of an object before whose construction text.usetex was true
C5_Witness ==
    /\ Completed("reset")
    /\ lastInit.self = lastCall.self
    /\ lastInit.rcParams["text.usetex"] = Bool(TRUE)
    /\ rcParams["text.usetex"] = Bool(FALSE)

\* C6: whatever the configuration is, a scope can be entered without
\* activation: some construction is possible that changes no configuration
\* key and does not switch the backend.
C6_EntryWithoutActivation ==
    DOMAIN objects # Objs
        => ENABLED (\E o \in Objs, args \in InitArgs :
                       /\ Construct(o, args[1], args[2])
                       /\ rcParams' = rcParams
                       /\ backend' = backend)

\* C7: reset(rcparams = R) leaves the configuration equal to R on the keys of
\* R, and reset() without rcparams leaves it equal to the configuration
\* recorded when the object was constructed.
C7_ResetInstallsRcparams ==
    Completed("reset")
        => IF lastCall.rcparams # NoArg
           THEN \A k \in DOMAIN lastCall.rcparams[1] :
                   rcParams[k] = lastCall.rcparams[1][k]
           ELSE lastInit.self = lastCall.self
                   => \A k \in Keys : rcParams[k] = lastInit.rcParams[k]

\* text is the lines of P with a newline between every two of them
IsJoined(text, P) ==
    /\ Len(text) = IF Len(P) = 0 THEN 0 ELSE 2 * Len(P) - 1
    /\ \A i \in 1..Len(P) : text[2 * i - 1] = P[i]
    /\ \A i \in 1..(Len(P) - 1) : text[2 * i] = "\n"

\* C8: immediately after construction the configuration holds the override
\* set: the sizes by tier, the fixed LaTeX values, and as preamble the package
\* lines joined by newline (the utf8 inputenc line when none are supplied).
C8_OverridesAfterInit ==
    lastCall.op = "__init__" =>
        LET SMALL == lastCall.sizes[1]
            MEDIUM == lastCall.sizes[2]
            BIGGER == lastCall.sizes[3]
            BIGGEST == lastCall.sizes[4]
            P == IF lastCall.packages = NoArg
                 THEN <<"\\usepackage[utf8]{inputenc}">>
                 ELSE lastCall.packages[1]
        IN  /\ rcParams["font.size"] = Num(SMALL)
            /\ rcParams["xtick.labelsize"] = Num(SMALL)
            /\ rcParams["ytick.labelsize"] = Num(SMALL)
            /\ rcParams["axes.labelsize"] = Num(MEDIUM)
            /\ rcParams["legend.fontsize"] = Num(MEDIUM)
            /\ rcParams["axes.titlesize"] = Num(BIGGER)
            /\ rcParams["figure.titlesize"] = Num(BIGGEST)
            /\ rcParams["pgf.texsystem"] = Str("pdflatex")
            /\ rcParams["font.family"] = Str("serif")
            /\ rcParams["text.usetex"] = Bool(TRUE)
            /\ rcParams["pgf.rcfonts"] = Bool(FALSE)
            /\ rcParams["pgf.preamble"][1] = "str"
            /\ IsJoined(rcParams["pgf.preamble"][2], P)

\* a construction without packages, over a configuration that had another
\* font size
C8_Witness ==
    /\ lastCall.op = "__init__"
    /\ lastCall.packages = NoArg
    /\ lastInit.rcParams["font.size"] = Num(14)
    /\ rcParams["font.size"] = Num(8)

\* C9: construction leaves every key outside the override set, and the active
\* backend, as they were.
C9_InitFrame ==
    lastCall.op = "__init__"
        => /\ \A k \in Keys \ OverrideKeys : rcParams[k] = lastCall.otherBefore[k]
           /\ backend = lastCall.backendBefore

\* a construction over a configuration with a customised key outside the
\* override set
C9_Witness ==
    /\ lastCall.op = "__init__"
    /\ lastCall.otherBefore["figure.dpi"] # rcParamsDefault["figure.dpi"]
    /\ rcParams["figure.dpi"] = lastCall.otherBefore["figure.dpi"]

====
